---- MODULE Spec2Model ----
(***************************************************************************)
(* http-mirror: the recursive crawler (pkg/mirror/manager.go) and its      *)
(* change-aware fetch client (pkg/http/client.go).                         *)
(*                                                                         *)
(* Strings are sequences of one-character strings, so that the string      *)
(* tests of the code (prefix, suffix, substring, basename, join) are       *)
(* computed and not assumed.  Local paths are sequences of path segments   *)
(* below the filesystem root; URLs are records [host, path].               *)
(***************************************************************************)
EXTENDS Integers, Sequences, FiniteSets, TLC

\* Bounds of the model.
MaxLinks == 2      \* hrefs on one listing page
MaxNest == 2       \* depth below which the remote still serves subdirectory links
MaxSize == 2       \* largest remote body size
MaxTime == 2       \* latest timestamp; the local clock reads MaxTime
MaxRate == 2       \* largest configured rate: bytes per tick, also the bucket capacity
MaxChunk == 3      \* largest buffer a caller hands to Read (above MaxRate)
MaxBody == 5       \* largest body read through the rate-limited reader
MaxClock == 4      \* ticks the reader is followed for after its first read

(***************************************************************************)
(* strings                                                                 *)
(***************************************************************************)
HasPrefix(s, p) == Len(s) >= Len(p) /\ SubSeq(s, 1, Len(p)) = p

HasSuffix(s, p) == Len(s) >= Len(p) /\ SubSeq(s, Len(s) - Len(p) + 1, Len(s)) = p

Contains(s, sub) == \E i \in 1..(Len(s) - Len(sub) + 1) : SubSeq(s, i, i + Len(sub) - 1) = sub

TrimSuffix(s, p) == IF HasSuffix(s, p) THEN SubSeq(s, 1, Len(s) - Len(p)) ELSE s

\* strings.TrimSpace(s) == "" : every character is white space
IsBlank(s) == \A i \in 1..Len(s) : s[i] = " "

LowerChar(c) ==
    CASE c = "H" -> "h" [] c = "T" -> "t" [] c = "P" -> "p"
      [] c = "B" -> "b" [] c = "A" -> "a" [] c = "K" -> "k"
      [] c = "M" -> "m" [] c = "G" -> "g" [] OTHER -> c

ToLower(s) == [i \in 1..Len(s) |-> LowerChar(s[i])]

IsLetter(c) == c \in {"a", "b", "c", "d", "e", "f", "h", "k", "p", "t", "H", "T", "P", "A", "B"}

\* index of the last sep in s, 0 when there is none (strings.LastIndex + 1)
LastIndex(s, sep) ==
    LET I == {i \in 1..Len(s) : s[i] = sep}
    IN  IF I = {} THEN 0 ELSE CHOOSE i \in I : \A j \in I : j <= i

\* index of the first sep in s, 0 when there is none
FirstIndex(s, sep) ==
    LET I == {i \in 1..Len(s) : s[i] = sep}
    IN  IF I = {} THEN 0 ELSE CHOOSE i \in I : \A j \in I : i <= j

\* strings.Split(s, sep) for a one-character separator
RECURSIVE Split(_, _)
Split(s, sep) ==
    LET i == FirstIndex(s, sep)
    IN  IF i = 0 THEN <<s>>
        ELSE <<SubSeq(s, 1, i - 1)>> \o Split(SubSeq(s, i + 1, Len(s)), sep)

RECURSIVE StripTrailingSlashes(_)
StripTrailingSlashes(s) ==
    IF s # <<>> /\ s[Len(s)] = "/" THEN StripTrailingSlashes(SubSeq(s, 1, Len(s) - 1)) ELSE s

\* filepath.Base
Base(p) ==
    IF p = <<>> THEN <<".">>
    ELSE LET q == StripTrailingSlashes(p)
         IN  IF q = <<>> THEN <<"/">>
             ELSE SubSeq(q, LastIndex(q, "/") + 1, Len(q))

\* filepath.Join(dir, name) for a cleaned absolute dir (a sequence of segments):
\* filepath.Clean of dir + "/" + name
RECURSIVE CleanInto(_, _)
CleanInto(dir, elems) ==
    IF elems = <<>> THEN dir
    ELSE LET e == Head(elems)
         IN  IF e = <<>> \/ e = <<".">> THEN CleanInto(dir, Tail(elems))
             ELSE IF e = <<".", ".">>
                  THEN CleanInto(IF dir = <<>> THEN dir ELSE SubSeq(dir, 1, Len(dir) - 1),
                                 Tail(elems))
                  ELSE CleanInto(Append(dir, e), Tail(elems))

Join(dir, name) == CleanInto(dir, Split(name, "/"))

\* the path as the string the code compares with strings.HasPrefix
RECURSIVE PathString(_)
PathString(p) == IF p = <<>> THEN <<>> ELSE <<"/">> \o Head(p) \o PathString(Tail(p))

Dir(p) == IF p = <<>> THEN p ELSE SubSeq(p, 1, Len(p) - 1)

(***************************************************************************)
(* net/url as the crawler uses it                                          *)
(***************************************************************************)
\* length of the scheme of s (url.getScheme), 0 when s has none
SchemeLen(s) ==
    LET i == FirstIndex(s, ":")
    IN  IF i > 1 /\ \A j \in 1..(i - 1) : IsLetter(s[j]) THEN i - 1 ELSE 0

\* url.Parse: ok is FALSE for an invalid percent escape
ParseURL(s) ==
    LET n    == SchemeLen(s)
        rest == IF n > 0 THEN SubSeq(s, n + 2, Len(s)) ELSE s
        auth == HasPrefix(rest, <<"/", "/">>)
        tl   == SubSeq(rest, 3, Len(rest))
        cut  == FirstIndex(tl, "/")
    IN  [ok     |-> ~Contains(s, <<"%">>),
         scheme |-> ToLower(SubSeq(s, 1, n)),
         host   |-> IF auth THEN (IF cut = 0 THEN tl ELSE SubSeq(tl, 1, cut - 1)) ELSE <<>>,
         path   |-> IF auth THEN (IF cut = 0 THEN <<>> ELSE SubSeq(tl, cut, Len(tl))) ELSE rest]

\* url.resolvePath: the loop over the "/"-separated elements
RECURSIVE resolveElems(_, _, _)
resolveElems(elems, dst, first) ==
    IF elems = <<>> THEN dst
    ELSE LET e == Head(elems)
         IN  IF e = <<".">> THEN resolveElems(Tail(elems), dst, FALSE)
             ELSE IF e = <<".", ".">>
                  THEN LET str == Tail(dst)
                           idx == LastIndex(str, "/")
                       IN  IF idx = 0 THEN resolveElems(Tail(elems), <<"/">>, TRUE)
                           ELSE resolveElems(Tail(elems), <<"/">> \o SubSeq(str, 1, idx - 1), first)
                  ELSE resolveElems(Tail(elems), (IF first THEN dst ELSE Append(dst, "/")) \o e, FALSE)

resolvePath(base, ref) ==
    LET full  == IF ref = <<>> THEN base
                 ELSE IF ref[1] # "/" THEN SubSeq(base, 1, LastIndex(base, "/")) \o ref
                 ELSE ref
        elems == Split(full, "/")
        last  == elems[Len(elems)]
        r0    == resolveElems(elems, <<"/">>, TRUE)
        r1    == IF last = <<".">> \/ last = <<".", ".">> THEN Append(r0, "/") ELSE r0
    IN  IF full = <<>> THEN <<>>
        ELSE IF Len(r1) > 1 /\ r1[2] = "/" THEN Tail(r1) ELSE r1

\* URL.ResolveReference(ref).String(), parsed again by the callee
ResolveReference(base, ref) ==
    IF ref.scheme # <<>> \/ ref.host # <<>>
    THEN [host |-> ref.host, path |-> resolvePath(ref.path, <<>>)]
    ELSE [host |-> base.host, path |-> resolvePath(base.path, ref.path)]

(***************************************************************************)
(* the crawler's pure functions                                            *)
(***************************************************************************)
\* the exclusion rules of parseDirectoryListing, in the code's order
IsSchemeOrAnchor(link) ==
    \/ HasPrefix(link, <<"h", "t", "t", "p", ":", "/", "/">>)
    \/ HasPrefix(link, <<"h", "t", "t", "p", "s", ":", "/", "/">>)
    \/ HasPrefix(link, <<"m", "a", "i", "l", "t", "o", ":">>)
    \/ HasPrefix(link, <<"f", "t", "p", ":", "/", "/">>)
    \/ HasPrefix(link, <<"j", "a", "v", "a", "s", "c", "r", "i", "p", "t", ":">>)
    \/ HasPrefix(link, <<"d", "a", "t", "a", ":">>)
    \/ HasPrefix(link, <<"v", "b", "s", "c", "r", "i", "p", "t", ":">>)
    \/ HasPrefix(link, <<"#">>)
    \/ link = <<"/">>
    \/ link = <<".", "/">>

IsTraversalOff(link) == FALSE

IsTraversal(link) ==
    \/ Contains(link, <<".", ".">>)
    \/ HasPrefix(link, <<".", ".", "/">>)
    \/ Contains(link, <<"/", ".", ".">>)
    \/ HasSuffix(link, <<"/", ".", ".">>)
    \/ link = <<".", ".">>

IsNonContentCaseSensitive(link) ==
    \/ Contains(link, <<"p", "a", "r", "e", "n", "t">>)
    \/ Contains(link, <<"b", "a", "c", "k">>)
    \/ Contains(link, <<"?">>)
    \/ Contains(link, <<"&">>)

IsNonContent(link) ==
    \/ Contains(ToLower(link), <<"p", "a", "r", "e", "n", "t">>)
    \/ Contains(ToLower(link), <<"b", "a", "c", "k">>)
    \/ Contains(link, <<"?">>)
    \/ Contains(link, <<"&">>)

KeepLink(link) ==
    /\ ~IsSchemeOrAnchor(link)
    /\ ~IsTraversal(link)
    /\ ~IsNonContent(link)
    /\ ~(link = <<>> \/ IsBlank(link))

\* parseDirectoryListing: the hrefs of the page that survive, in document order
parseDirectoryListing(hrefs) == SelectSeq(hrefs, KeepLink)

isValidFilenameNoBackslash(filename) ==
    /\ ~(filename = <<>> \/ IsBlank(filename))
    /\ ~Contains(filename, <<".", ".">>)
    /\ ~Contains(filename, <<"/">>)

isValidFilename(filename) ==
    /\ ~(filename = <<>> \/ IsBlank(filename))
    /\ ~Contains(filename, <<".", ".">>)
    /\ ~Contains(filename, <<"/">>)
    /\ ~Contains(filename, <<"\\">>)

\* the second skip of the link loop (mirrorURL, "Skip parent directory links")
IsParentLink(link) ==
    \/ Contains(link, <<".", ".">>)
    \/ Contains(link, <<"P", "a", "r", "e", "n", "t", " ", "D", "i", "r", "e", "c", "t", "o", "r", "y">>)

(***************************************************************************)
(* the fetch client's change detection                                     *)
(***************************************************************************)
\* os.Stat outcomes: kind "absent" (not found), "error", or an entry with the
\* size and mtime of what is there; info is [size, lastMod] with 0 for a
\* header that was not sent (the zero value)
NoFile == [kind |-> "absent", size |-> 0, mtime |-> 0]
StatError == [kind |-> "error", size |-> 0, mtime |-> 0]

NeedsUpdateNoSize(st, info) ==
    IF st.kind = "absent" THEN [needs |-> TRUE, err |-> FALSE]
    ELSE IF st.kind = "error" THEN [needs |-> FALSE, err |-> TRUE]
    ELSE [needs |-> info.lastMod # 0 /\ st.mtime < info.lastMod, err |-> FALSE]

NeedsUpdate(st, info) ==
    IF st.kind = "absent" THEN [needs |-> TRUE, err |-> FALSE]
    ELSE IF st.kind = "error" THEN [needs |-> FALSE, err |-> TRUE]
    ELSE IF info.lastMod # 0 /\ st.mtime < info.lastMod THEN [needs |-> TRUE, err |-> FALSE]
    ELSE IF info.size > 0 /\ st.size # info.size THEN [needs |-> TRUE, err |-> FALSE]
    ELSE [needs |-> FALSE, err |-> FALSE]

(***************************************************************************)
(* the local filesystem                                                    *)
(***************************************************************************)
Now == MaxTime

DirEntry == [kind |-> "dir", size |-> MaxSize + 1, mtime |-> Now]

FileEntry(size, mtime) == [kind |-> "file", size |-> size, mtime |-> mtime]

Prefixes(p) == {SubSeq(p, 1, k) : k \in 0..Len(p)}

\* os.Stat
Stat(f, p) ==
    IF p \in DOMAIN f THEN f[p]
    ELSE IF \E q \in Prefixes(p) : q \in DOMAIN f /\ f[q].kind = "file" THEN StatError
    ELSE NoFile

\* os.MkdirAll succeeds unless a component of the path is a file
CanMkdirAll(f, p) == \A q \in Prefixes(p) : q \in DOMAIN f => f[q].kind = "dir"

MkdirAll(f, p) == [q \in DOMAIN f \cup Prefixes(p) |-> IF q \in DOMAIN f THEN f[q] ELSE DirEntry]

\* os.Create: the parent is a directory and the path is not one
CanCreate(f, p) ==
    /\ p # <<>>
    /\ Dir(p) \in DOMAIN f /\ f[Dir(p)].kind = "dir"
    /\ p \in DOMAIN f => f[p].kind = "file"

WriteFile(f, p, e) == [q \in DOMAIN f \cup {p} |-> IF q = p THEN e ELSE f[q]]

(***************************************************************************)
(* the configuration, the remote side and the inputs of one step           *)
(***************************************************************************)
TargetName == <<"t">>
DataPath == << <<"v">> >>
RootHost == <<"r">>
IndexHtml == <<"i", "n", "d", "e", "x", ".", "h", "t", "m", "l">>

\* a file of the data directory that belongs to no target
OutsideFile == Append(DataPath, <<"f">>)

\* the root URLs of the targets: "http://r" and "http://r/"
RootURLs == {[host |-> RootHost, path |-> <<>>], [host |-> RootHost, path |-> <<"/">>]}

\* the targets of a walk; they ask for no wait between requests
Targets ==
    [url : RootURLs, maxDepth : (-1)..MaxNest, checkChanges : BOOLEAN,
     waitBetweenRequests : {0}]

\* the hrefs a listing page may carry
Hrefs ==
    { <<"f">>,                                              \* a file
      <<"d", "/">>,                                         \* a subdirectory
      <<"a", "/", "f">>,                                    \* a nested path
      <<"a", "/", "d", "/">>,                               \* a nested directory
      <<".", ".", "/", "f">>,                               \* parent traversal
      <<"/", "f">>,                                         \* an absolute path
      <<"/", "/", "e", "/", "f">>,                          \* protocol-relative
      <<"H", "T", "T", "P", ":", "/", "/", "e", "/", "f">>, \* upper-case scheme
      <<"a", "\\", "f">>,                                   \* a backslash
      <<"%">> }                                             \* an invalid escape

\* what listings carry below the root: the forms whose handling depends on
\* the directory they are found in
SubHrefs == { <<"f">>, <<"d", "/">>, <<".", ".", "/", "f">>, <<"/", "f">> }

\* the listing of a flat remote: two names for files
FlatHrefs == { <<"f">>, <<"a", "/", "f">> }

\* the hrefs of a remote that lists a file and a subdirectory at every URL
NestHrefs == { <<"f">>, <<"d", "/">> }

\* Two remotes are modelled.  "tree": listings of any content down to depth
\* MaxNest, every file with the same metadata, every answer chosen anew.
\* "files": one flat listing, files of any metadata, and what a URL served
\* once it serves again (the remote does not change between the runs).
\* A third, "nest", is nested without end: the same listings at every depth.
HrefsAt(mode, depth) ==
    IF mode = "files" THEN FlatHrefs
    ELSE IF mode = "nest" THEN NestHrefs
    ELSE IF depth = 0 THEN Hrefs
    ELSE IF depth < MaxNest THEN SubHrefs
    ELSE {}

Pages(mode, depth) == UNION {[1..n -> HrefsAt(mode, depth)] : n \in 0..MaxLinks}

\* the answers to the GET of mirrorURL: a response that is not HTML, an HTML
\* page with its hrefs, or an error page (a status that is not 2xx) with at
\* most one href
ListingContents(mode, depth) ==
    {[status2xx |-> c, html |-> FALSE, hrefs |-> <<>>] : c \in BOOLEAN}
    \cup [status2xx : {TRUE}, html : {TRUE}, hrefs : Pages(mode, depth)]
    \cup {[status2xx |-> FALSE, html |-> TRUE, hrefs |-> p] :
            p \in {q \in Pages(mode, depth) : q \in {<<>>, << <<"f">> >>}}}

NoContent == [status2xx |-> TRUE, html |-> FALSE, hrefs |-> <<>>]

\* a remote file: its body size, its Last-Modified (0: not sent) and whether
\* HEAD reports a Content-Length
RemoteFiles ==
    {rf \in [size : 0..MaxSize, lastMod : 0..MaxTime, headKnown : BOOLEAN] :
        rf.size = 0 => rf.headKnown}

NoRemoteFile == [size |-> 0, lastMod |-> 0, headKnown |-> TRUE]

\* the one file metadata of the "tree" remote
TreeFile == [size |-> 1, lastMod |-> 1, headKnown |-> TRUE]

RemoteFilesOf(mode) == IF mode = "files" THEN RemoteFiles ELSE {TreeFile}

VARIABLES
    target,          \* config.Target of the run
    ctx,             \* "live" or "cancelled"
    pc,              \* "idle", "running", "done": where MirrorTarget is
    result,          \* the error MirrorTarget returned
    stack,           \* the activations of mirrorURL, innermost last
    fs,              \* the local filesystem: path -> entry
    stats,           \* MirrorStats of the run
    remote,          \* what the remote serves: anything, or fixed once served
    run,             \* 1 or 2: the updater's invocation
    prev,            \* the first run's outcome, for the second run
    hosts,           \* history: hosts a request was sent to
    fetched,         \* history: depths at which a listing was requested
    gets,            \* history: GET transfers of files in this run
    observed,        \* history: the walk met the cancelled context
    sawTraversal,    \* history: a parsed listing carried a traversal href
    startCancelled,  \* history: the context was cancelled when the run began
    rootFetch,       \* history: outcome of the root request
    faults,          \* history: a transport, body or disk fault happened
    last,            \* history: what the latest step of the walk did with its entry
    rl,              \* a rate-limited reader and its token bucket
    call,            \* a call of one of the crawler's pure functions
    up               \* the updater's loop over the configured targets

vars == <<target, ctx, pc, result, stack, fs, stats, remote, run, prev, hosts, fetched,
          gets, observed, sawTraversal, startCancelled, rootFetch, faults, last, rl, call, up>>

ZeroStats == [downloaded |-> 0, skipped |-> 0, errors |-> 0]

\* the latest step handled no listing entry
NoEvent ==
    [what |-> "none", url |-> [host |-> <<>>, path |-> <<>>], path |-> <<>>, ok |-> FALSE,
     slept |-> 0, get |-> "none"]

\* the part of the state the walk reads and writes, as one record
St ==
    [ctx |-> ctx, pc |-> pc, result |-> result, stack |-> stack, fs |-> fs, stats |-> stats,
     remote |-> remote, hosts |-> hosts, fetched |-> fetched, gets |-> gets,
     observed |-> observed, sawTraversal |-> sawTraversal, rootFetch |-> rootFetch,
     faults |-> faults, last |-> NoEvent]

Becomes(n) ==
    /\ ctx' = n.ctx /\ pc' = n.pc /\ result' = n.result /\ stack' = n.stack
    /\ fs' = n.fs /\ stats' = n.stats /\ remote' = n.remote /\ hosts' = n.hosts
    /\ fetched' = n.fetched /\ gets' = n.gets /\ observed' = n.observed
    /\ sawTraversal' = n.sawTraversal /\ rootFetch' = n.rootFetch /\ faults' = n.faults
    /\ last' = n.last
    /\ UNCHANGED <<target, run, prev, startCancelled, rl, call, up>>

Top(s) == s.stack[Len(s.stack)]
Callers(s) == SubSeq(s.stack, 1, Len(s.stack) - 1)

Fixed(s) == s.remote.mode = "files"

(***************************************************************************)
(* inputs: what the remote and the disk answer during one step             *)
(***************************************************************************)
Memo(f, k, v) == [x \in DOMAIN f \cup {k} |-> IF x = k /\ k \notin DOMAIN f THEN v ELSE f[x]]

ListingInputs(s) ==
    LET top      == Top(s)
        contents == IF Fixed(s) /\ top.url \in DOMAIN s.remote.pages
                    THEN {s.remote.pages[top.url]}
                    ELSE ListingContents(s.remote.mode, top.depth)
    IN  {[kind |-> k, content |-> NoContent, readErr |-> FALSE] : k \in {"neterr", "cancel"}}
        \cup [kind : {"resp"}, content : contents, readErr : {FALSE}]
        \cup {[kind |-> "resp", content |-> c, readErr |-> TRUE] :
                c \in {x \in contents : x.html /\ (x.hrefs = <<>> \/ Fixed(s))}}

NoListing == [kind |-> "neterr", content |-> NoContent, readErr |-> FALSE]

\* one file download: the remote file, whether each probe and the GET are
\* answered with 200, and how many body bytes arrive before the stream ends
DownloadInputs(s, url) ==
    LET rfs == IF Fixed(s) /\ url \in DOMAIN s.remote.files
               THEN {s.remote.files[url]} ELSE RemoteFilesOf(s.remote.mode)
    IN  IF s.ctx = "cancelled"
        THEN {[rf |-> NoRemoteFile, h1 |-> FALSE, h2 |-> FALSE, getOK |-> FALSE, bytes |-> 0,
               disk |-> TRUE]}
        ELSE {in \in [rf : rfs, h1 : BOOLEAN, h2 : BOOLEAN, getOK : BOOLEAN,
                      bytes : 0..MaxSize, disk : {TRUE}] :
                /\ in.bytes <= in.rf.size
                /\ ~in.getOK => in.bytes = 0
                /\ ~target.checkChanges => in.h1 /\ in.h2}

NoInput ==
    [rf |-> NoRemoteFile, h1 |-> TRUE, h2 |-> TRUE, getOK |-> TRUE, bytes |-> 0, disk |-> TRUE]

Faulty(in) == ~in.h1 \/ ~in.h2 \/ ~in.getOK \/ in.bytes < in.rf.size \/ ~in.disk

\* CheckFileInfo: what a successful HEAD reports
HeadInfo(rf) == [size |-> IF rf.headKnown THEN rf.size ELSE 0, lastMod |-> rf.lastMod]

(***************************************************************************)
(* Client.DownloadFile                                                     *)
(***************************************************************************)
DownloadFileNoCheck(f, cancelled, checkChanges, localPath, in) ==
    LET f1    == MkdirAll(f, Dir(localPath))
        mtime == IF in.rf.lastMod # 0 THEN in.rf.lastMod ELSE Now
    IN  IF ~CanMkdirAll(f, Dir(localPath)) THEN [fs |-> f, err |-> TRUE, get |-> FALSE]
        ELSE IF ~CanCreate(f1, localPath) THEN [fs |-> f1, err |-> TRUE, get |-> FALSE]
        ELSE IF cancelled \/ ~in.getOK \/ in.bytes < in.rf.size
             THEN [fs |-> WriteFile(f1, localPath, FileEntry(in.bytes, Now)),
                   err |-> TRUE, get |-> TRUE]
        ELSE [fs |-> WriteFile(f1, localPath, FileEntry(in.rf.size, mtime)),
              err |-> FALSE, get |-> TRUE]

\* returns the filesystem after the call, whether it failed and whether it
\* came to the GET
DownloadFile(f, cancelled, checkChanges, localPath, in) ==
    LET nu    == NeedsUpdate(Stat(f, localPath), HeadInfo(in.rf))
        f1    == MkdirAll(f, Dir(localPath))
        f2    == WriteFile(f1, localPath, FileEntry(0, Now))
        mtime == IF in.rf.lastMod # 0 THEN in.rf.lastMod ELSE Now
    IN  IF checkChanges /\ (cancelled \/ ~in.h2) THEN [fs |-> f, err |-> TRUE, get |-> FALSE]
        ELSE IF checkChanges /\ nu.err THEN [fs |-> f, err |-> TRUE, get |-> FALSE]
        ELSE IF checkChanges /\ ~nu.needs THEN [fs |-> f, err |-> FALSE, get |-> FALSE]
        ELSE IF ~CanMkdirAll(f, Dir(localPath)) THEN [fs |-> f, err |-> TRUE, get |-> FALSE]
        ELSE IF ~CanCreate(f1, localPath) THEN [fs |-> f1, err |-> TRUE, get |-> FALSE]
        ELSE IF cancelled \/ ~in.getOK THEN [fs |-> f2, err |-> TRUE, get |-> TRUE]
        ELSE IF in.bytes < in.rf.size
             THEN [fs |-> WriteFile(f1, localPath, FileEntry(in.bytes, Now)),
                   err |-> TRUE, get |-> TRUE]
        ELSE [fs |-> WriteFile(f1, localPath, FileEntry(in.rf.size, mtime)),
              err |-> FALSE, get |-> TRUE]

(***************************************************************************)
(* Manager.downloadFile                                                    *)
(***************************************************************************)
downloadFile(s, url, localPath, in) ==
    LET cancelled == s.ctx = "cancelled"
        cc        == target.checkChanges
        nu        == NeedsUpdate(Stat(s.fs, localPath), HeadInfo(in.rf))
        skip      == cc /\ ~cancelled /\ in.h1 /\ ~nu.err /\ ~nu.needs
        r         == DownloadFile(s.fs, cancelled, cc, localPath, in)
        s1        == [s EXCEPT !.hosts = IF ~cancelled /\ (cc \/ r.get)
                                         THEN @ \cup {url.host} ELSE @,
                               !.observed = @ \/ (cancelled /\ (cc \/ r.get)),
                               !.gets = IF ~cancelled /\ ~skip /\ r.get THEN @ + 1 ELSE @,
                               !.faults = @ \/ Faulty(in),
                               !.last = [NoEvent EXCEPT
                                            !.what = "link", !.url = url, !.path = localPath,
                                            !.ok = ~skip /\ ~r.err /\ r.get,
                                            !.get = IF skip \/ ~r.get THEN "none"
                                                    ELSE IF cancelled \/ ~in.getOK THEN "failed"
                                                    ELSE IF r.err THEN "partial"
                                                    ELSE "complete"],
                               !.remote.files = IF Fixed(s) /\ ~cancelled
                                                THEN Memo(@, url, in.rf) ELSE @]
    IN  IF skip THEN [s1 EXCEPT !.stats.skipped = @ + 1]
        ELSE IF r.err
             THEN [s1 EXCEPT !.fs = r.fs, !.stats.errors = @ + 1]
        ELSE [s1 EXCEPT !.fs = r.fs, !.stats.downloaded = @ + 1]

(***************************************************************************)
(* Manager.mirrorURL, one activation per stack frame                       *)
(***************************************************************************)
FrameSameDepth(url, dir, depth) ==
    [url |-> url, dir |-> dir, depth |-> IF depth > 0 THEN depth - 1 ELSE 0, pc |-> "enter",
     links |-> <<>>]

Frame(url, dir, depth) == [url |-> url, dir |-> dir, depth |-> depth, pc |-> "enter", links |-> <<>>]

\* the depth limit (-1 means unlimited)
DepthLimitOffByOne(maxDepth, depth) == maxDepth >= 0 /\ depth > maxDepth

DepthLimitReached(maxDepth, depth) == maxDepth >= 0 /\ depth >= maxDepth

\* the select on ctx.Done() at the entry of mirrorURL
ContextNeverDone(c) == FALSE

ContextDone(c) == c = "cancelled"

ReturnToPropagating(s, callers, err) ==
    IF callers = <<>> \/ err # "nil"
    THEN [s EXCEPT !.stack = <<>>, !.pc = "done", !.result = err]
    ELSE [s EXCEPT !.stack = callers]

\* a call of mirrorURL returns err to its callers: a calling mirrorURL logs
\* the error and goes on with its loop, MirrorTarget returns it
ReturnTo(s, callers, err) ==
    IF callers = <<>>
    THEN [s EXCEPT !.stack = <<>>, !.pc = "done", !.result = err]
    ELSE [s EXCEPT !.stack = callers]

SetTop(s, frame) == [s EXCEPT !.stack[Len(s.stack)] = frame]

\* the local name of a URL stored as a single file
DirectFileName(path, html) ==
    LET filename == Base(path)
    IN  IF filename = <<>> \/ filename = <<".">> \/ (~html /\ filename = <<"/">>)
        THEN IndexHtml ELSE filename

ShouldWaitAtRoot(depth, wait) == wait > 0

\* the pacing of mirrorURL: a sleep below the root, when a wait is configured
ShouldWait(depth, wait) == depth > 0 /\ wait > 0

\* from the entry of mirrorURL to its pacing sleep ("enter" to "sleep"), and
\* from there, or from the entry when it does not sleep, to the start of
\* its link loop
mirrorURL(s, in) ==
    LET top     == Top(s)
        callers == Callers(s)
        c       == in.content
        links   == parseDirectoryListing(c.hrefs)
        s1      == [s EXCEPT !.hosts = @ \cup {top.url.host},
                             !.last = [NoEvent EXCEPT !.what = "request",
                                          !.slept = IF top.pc = "sleep"
                                                    THEN target.waitBetweenRequests ELSE 0],
                             !.fetched = @ \cup {top.depth},
                             !.rootFetch = IF top.depth # 0 THEN @
                                           ELSE IF in.kind # "resp" THEN "failed"
                                           ELSE IF c.status2xx THEN "ok" ELSE "status",
                             !.faults = @ \/ in.kind # "resp" \/ in.readErr,
                             !.remote.pages = IF Fixed(s) /\ in.kind = "resp"
                                              THEN Memo(@, top.url, c) ELSE @]
    IN  IF top.pc = "enter" /\ DepthLimitReached(target.maxDepth, top.depth)
        THEN ReturnTo(s, callers, "nil")
        ELSE IF top.pc = "enter" /\ ContextDone(s.ctx)
             THEN ReturnTo([s EXCEPT !.observed = TRUE], callers, "ctx")
        ELSE IF top.pc = "enter" /\ ShouldWait(top.depth, target.waitBetweenRequests)
             THEN SetTop(s, [top EXCEPT !.pc = "sleep"])
        ELSE IF in.kind = "neterr"
             THEN ReturnTo([s1 EXCEPT !.stats.errors = @ + 1], callers, "fetch")
        ELSE IF in.kind = "cancel"
             THEN ReturnTo([s1 EXCEPT !.stats.errors = @ + 1, !.ctx = "cancelled",
                                      !.observed = TRUE], callers, "fetchctx")
        ELSE IF ~c.html THEN SetTop(s1, [top EXCEPT !.pc = "file"])
        ELSE IF in.readErr
             THEN ReturnTo([s1 EXCEPT !.stats.errors = @ + 1], callers, "nil")
        ELSE IF links = <<>>
             THEN SetTop([s1 EXCEPT !.sawTraversal = @ \/ \E i \in 1..Len(c.hrefs) : IsTraversal(c.hrefs[i])],
                         [top EXCEPT !.pc = "page"])
        ELSE SetTop([s1 EXCEPT !.sawTraversal = @ \/ \E i \in 1..Len(c.hrefs) : IsTraversal(c.hrefs[i])],
                    [top EXCEPT !.pc = "loop", !.links = links])

\* the URL is stored as a single file: the page without links ("page") or
\* the response that is not HTML ("file"); mirrorURL then returns nil
mirrorDirect(s, in) ==
    LET top       == Top(s)
        localPath == Join(top.dir, DirectFileName(top.url.path, top.pc = "page"))
        s1        == downloadFile(s, top.url, localPath, in)
    IN  ReturnTo([s1 EXCEPT !.last.what = "direct"], Callers(s), "nil")

\* one iteration of the link loop
mirrorLink(s, in) ==
    LET top       == Top(s)
        link      == Head(top.links)
        s0        == SetTop(s, [top EXCEPT !.links = Tail(@)])
        linkURL   == ParseURL(link)
        absolute  == ResolveReference(top.url, linkURL)
        dirName   == TrimSuffix(link, <<"/">>)
        subDir    == Join(top.dir, dirName)
        filename  == Base(link)
        localPath == Join(top.dir, filename)
    IN  IF ~linkURL.ok THEN s0
        ELSE IF IsParentLink(link) THEN s0
        ELSE IF HasSuffix(link, <<"/">>)
             THEN IF ~isValidFilename(dirName) THEN [s0 EXCEPT !.last.what = "rejected"]
                  ELSE IF ~HasPrefix(PathString(subDir), PathString(top.dir))
                       THEN [s0 EXCEPT !.stats.errors = @ + 1]
                  ELSE IF ~in.disk \/ ~CanMkdirAll(s.fs, subDir)
                       THEN [s0 EXCEPT !.stats.errors = @ + 1, !.faults = TRUE]
                  ELSE [s0 EXCEPT !.fs = MkdirAll(s.fs, subDir),
                                  !.stack = Append(@, Frame(absolute, subDir, top.depth + 1))]
        ELSE IF ~isValidFilename(filename) THEN [s0 EXCEPT !.last.what = "rejected"]
        ELSE IF ~HasPrefix(PathString(localPath), PathString(top.dir))
             THEN [s0 EXCEPT !.stats.errors = @ + 1]
        ELSE downloadFile(s0, absolute, localPath, in)

\* what the remote and the disk may answer to the iteration on this link
LinkInputs(s) ==
    LET top  == Top(s)
        link == Head(top.links)
        ref  == ParseURL(link)
    IN  IF ~ref.ok \/ IsParentLink(link) THEN {NoInput}
        ELSE IF HasSuffix(link, <<"/">>)
             THEN IF isValidFilename(TrimSuffix(link, <<"/">>))
                  THEN {[NoInput EXCEPT !.disk = d] : d \in BOOLEAN} ELSE {NoInput}
        ELSE IF isValidFilename(Base(link))
             THEN DownloadInputs(s, ResolveReference(top.url, ref)) ELSE {NoInput}

(***************************************************************************)
(* actions                                                                 *)
(***************************************************************************)
InitFS ==
    (<<>> :> DirEntry) @@ (DataPath :> DirEntry) @@ (OutsideFile :> FileEntry(1, 1))

NoRemote(mode) == [mode |-> mode, pages |-> <<>>, files |-> <<>>]

\* no reader has been created, no function is being called
NoReader == [status |-> "none", rate |-> 0, tokens |-> 0, clock |-> 0, pending |-> 0,
             delivered |-> 0, remaining |-> 0]

NoCall == [fn |-> "none", arg |-> <<>>, out |-> <<>>]

\* MirrorTarget is called on its own, not from the updater's loop
NoUpdater == [phase |-> "none", config |-> <<>>, finished |-> <<>>, exit |-> "none"]

Init ==
    /\ target \in Targets
    /\ ctx = "live"
    /\ pc = "idle"
    /\ result = "nil"
    /\ stack = <<>>
    /\ fs = InitFS
    /\ stats = ZeroStats
    /\ remote = NoRemote("tree")
    /\ run = 1
    /\ prev = [clean |-> FALSE, stats |-> ZeroStats]
    /\ hosts = {}
    /\ fetched = {}
    /\ gets = 0
    /\ observed = FALSE
    /\ sawTraversal = FALSE
    /\ startCancelled = FALSE
    /\ rootFetch = "none"
    /\ faults = FALSE
    /\ last = NoEvent
    /\ rl = NoReader
    /\ call = NoCall
    /\ up = NoUpdater

\* the context is cancelled or its deadline passes
Cancel ==
    /\ pc \in {"idle", "running"} /\ up.phase \in {"none", "loop"}
    /\ ctx = "live"
    /\ ctx' = "cancelled"
    /\ UNCHANGED <<target, pc, result, stack, fs, stats, remote, run, prev, hosts, fetched,
                   gets, observed, sawTraversal, startCancelled, rootFetch, faults, last, rl,
                   call, up>>

TargetDirIsDataPath == DataPath

\* the directory MirrorTarget creates for the target
TargetDir == Join(DataPath, TargetName)

\* MirrorTarget up to its call of mirrorURL; diskOK: os.MkdirAll succeeds
MirrorTarget(diskOK) ==
    /\ pc = "idle" /\ up.phase \in {"none", "loop"}
    /\ startCancelled' = (ctx = "cancelled")
    /\ stats' = ZeroStats
    /\ hosts' = {} /\ fetched' = {} /\ gets' = 0 /\ observed' = FALSE
    /\ sawTraversal' = FALSE /\ rootFetch' = "none"
    /\ IF diskOK /\ CanMkdirAll(fs, TargetDir)
       THEN /\ fs' = MkdirAll(fs, TargetDir)
            /\ stack' = <<Frame(target.url, TargetDir, 0)>>
            /\ pc' = "running"
            /\ faults' = FALSE
            /\ UNCHANGED result
       ELSE /\ pc' = "done"
            /\ result' = "mkdir"
            /\ faults' = TRUE
            /\ UNCHANGED <<fs, stack>>
    /\ last' = NoEvent
    /\ UNCHANGED <<target, ctx, remote, run, prev, rl, call, up>>

Enter ==
    /\ pc = "running" /\ Top(St).pc = "enter"
    /\ \E in \in (IF \/ DepthLimitReached(target.maxDepth, Top(St).depth)
                     \/ ctx = "cancelled"
                     \/ ShouldWait(Top(St).depth, target.waitBetweenRequests)
                  THEN {NoListing} ELSE ListingInputs(St)) :
          Becomes(mirrorURL(St, in))

\* the pacing sleep is over and the request is made; a context cancelled
\* during the sleep makes the request fail
Wake ==
    /\ pc = "running" /\ Top(St).pc = "sleep"
    /\ \E in \in (IF ctx = "cancelled"
                  THEN {[kind |-> "cancel", content |-> NoContent, readErr |-> FALSE]}
                  ELSE ListingInputs(St)) :
          Becomes(mirrorURL(St, in))

Direct ==
    /\ pc = "running" /\ Top(St).pc \in {"page", "file"}
    /\ \E in \in DownloadInputs(St, Top(St).url) : Becomes(mirrorDirect(St, in))

Link ==
    /\ pc = "running" /\ Top(St).pc = "loop" /\ Top(St).links # <<>>
    /\ \E in \in LinkInputs(St) : Becomes(mirrorLink(St, in))

\* the link loop is over: mirrorURL returns nil
Return ==
    /\ pc = "running" /\ Top(St).pc = "loop" /\ Top(St).links = <<>>
    /\ Becomes(ReturnTo(St, Callers(St), "nil"))

\* the updater runs again, over what the remote served the first time
Rerun ==
    /\ pc = "done" /\ run = 1
    /\ run' = 2
    /\ pc' = "idle"
    /\ result' = "nil"
    /\ prev' = [clean |-> result = "nil" /\ ~faults /\ ctx = "live" /\ stats.errors = 0,
                stats |-> stats]
    /\ UNCHANGED <<target, ctx, stack, fs, stats, remote, hosts, fetched, gets, observed,
                   sawTraversal, startCancelled, rootFetch, faults, last, rl, call, up>>

Next ==
    \/ Cancel
    \/ \E diskOK \in BOOLEAN : MirrorTarget(diskOK)
    \/ Enter
    \/ Direct
    \/ Link
    \/ Return

\* one run over a remote tree
Spec == Init /\ [][Next]_vars

(***************************************************************************)
(* the updater: every configured target in turn, then the exit code        *)
(***************************************************************************)
MaxTargets == 2

\* the targets of the updater's configuration: the root listing, walked
\* not at all or one level deep
UpdaterTargets ==
    {t \in Targets : t.url = [host |-> RootHost, path |-> <<"/">>] /\ t.maxDepth \in {0, 1}
                      /\ ~t.checkChanges}

Configs == UNION {[1..n -> UpdaterTargets] : n \in 0..MaxTargets}

\* a configuration without targets ends the updater at once, with failure;
\* otherwise the loop begins with the first target
Validate ==
    /\ up.phase = "load"
    /\ IF up.config = <<>>
       THEN /\ up' = [up EXCEPT !.phase = "exited", !.exit = "1"]
            /\ UNCHANGED target
       ELSE /\ up' = [up EXCEPT !.phase = "loop"]
            /\ target' = up.config[1]
    /\ UNCHANGED <<ctx, pc, result, stack, fs, stats, remote, run, prev, hosts, fetched,
                   gets, observed, sawTraversal, startCancelled, rootFetch, faults, last, rl,
                   call>>

\* MirrorTarget returned: its error is kept and the loop goes on to the next
\* target, or ends after the last
Collect ==
    /\ up.phase = "loop" /\ pc = "done"
    /\ LET finished == Append(up.finished, [target |-> target, err |-> result])
       IN  IF Len(finished) < Len(up.config)
           THEN /\ up' = [up EXCEPT !.finished = finished]
                /\ target' = up.config[Len(finished) + 1]
                /\ pc' = "idle"
                /\ result' = "nil"
           ELSE /\ up' = [up EXCEPT !.finished = finished, !.phase = "report"]
                /\ UNCHANGED <<target, pc, result>>
    /\ UNCHANGED <<ctx, stack, fs, stats, remote, run, prev, hosts, fetched,
                   gets, observed, sawTraversal, startCancelled, rootFetch, faults, last, rl,
                   call>>

ExitCodeOfLast(finished) ==
    IF finished # <<>> /\ finished[Len(finished)].err # "nil" THEN "1" ELSE "0"

\* os.Exit(1) when an error was collected, a normal return otherwise
ExitCode(finished) ==
    IF \E i \in 1..Len(finished) : finished[i].err # "nil" THEN "1" ELSE "0"

Report ==
    /\ up.phase = "report"
    /\ up' = [up EXCEPT !.phase = "exited", !.exit = ExitCode(up.finished)]
    /\ UNCHANGED <<target, ctx, pc, result, stack, fs, stats, remote, run, prev, hosts,
                   fetched, gets, observed, sawTraversal, startCancelled, rootFetch, faults,
                   last, rl, call>>

InitUpdater ==
    /\ target = [url |-> [host |-> RootHost, path |-> <<"/">>], maxDepth |-> 0,
                 checkChanges |-> FALSE, waitBetweenRequests |-> 0]
    /\ Init!2 /\ Init!3 /\ Init!4 /\ Init!5 /\ Init!6 /\ Init!7 /\ Init!8
    /\ Init!9 /\ Init!10 /\ Init!11 /\ Init!12 /\ Init!13 /\ Init!14 /\ Init!15
    /\ Init!16 /\ Init!17 /\ Init!18 /\ Init!19 /\ Init!20 /\ Init!21
    /\ up \in {[phase |-> "load", config |-> c, finished |-> <<>>, exit |-> "none"] :
                 c \in Configs}

NextUpdater ==
    \/ Validate
    \/ Next
    \/ Collect
    \/ Report

\* one run of the updater over its configuration
SpecUpdater == InitUpdater /\ [][NextUpdater]_vars

\* a target with a depth limit, and a remote nested without end
InitLive ==
    /\ target \in {t \in Targets : t.maxDepth >= 0}
    /\ Init!2 /\ Init!3 /\ Init!4 /\ Init!5 /\ Init!6 /\ Init!7
    /\ remote = NoRemote("nest")
    /\ Init!9 /\ Init!10 /\ Init!11 /\ Init!12 /\ Init!13 /\ Init!14 /\ Init!15
    /\ Init!16 /\ Init!17 /\ Init!18 /\ Init!19 /\ Init!20 /\ Init!21 /\ Init!22

\* a step of the walk: Enter, Direct, Link or Return
Walking == pc = "running" /\ stack' # stack

\* one run in which the walk does not stop on its way: a request is
\* answered or times out, a file operation returns.  This is the weak
\* fairness of the walk's steps, WF_vars(Enter \/ Direct \/ Link \/ Return),
\* with its ENABLED written out: a step of the walk is possible exactly
\* while MirrorTarget is running
SpecLive ==
    /\ InitLive /\ [][Next]_vars
    /\ ([]<>(pc # "running") \/ []<><<Walking>>_vars)

\* targets that ask for a wait between requests, or for none
MaxWait == 1

PacedTargets ==
    [url : {[host |-> RootHost, path |-> <<"/">>]}, maxDepth : {MaxNest}, checkChanges : {FALSE},
     waitBetweenRequests : 0..MaxWait]

InitPaced ==
    /\ target \in PacedTargets
    /\ Init!2 /\ Init!3 /\ Init!4 /\ Init!5 /\ Init!6 /\ Init!7 /\ Init!8
    /\ Init!9 /\ Init!10 /\ Init!11 /\ Init!12 /\ Init!13 /\ Init!14 /\ Init!15
    /\ Init!16 /\ Init!17 /\ Init!18 /\ Init!19 /\ Init!20 /\ Init!21 /\ Init!22

NextPaced == Next \/ Wake

\* one run of a target with a wait between requests
SpecPaced == InitPaced /\ [][NextPaced]_vars

\* two runs over a flat remote that does not change
InitFiles ==
    /\ target \in {t \in Targets : t.maxDepth = -1 /\ t.url.path = <<"/">>}
    /\ Init!2 /\ Init!3 /\ Init!4 /\ Init!5 /\ Init!6 /\ Init!7
    /\ remote = NoRemote("files")
    /\ Init!9 /\ Init!10 /\ Init!11 /\ Init!12 /\ Init!13 /\ Init!14 /\ Init!15
    /\ Init!16 /\ Init!17 /\ Init!18 /\ Init!19 /\ Init!20 /\ Init!21 /\ Init!22

NextFiles == Next \/ Rerun

SpecFiles == InitFiles /\ [][NextFiles]_vars

(***************************************************************************)
(* properties                                                              *)
(***************************************************************************)
\* <DataPath>/<target.Name>, the local root of the target
LocalRoot == DataPath \o <<TargetName>>

IsUnder(p, root) == Len(p) >= Len(root) /\ SubSeq(p, 1, Len(root)) = root

\* what the run created or changed on disk
Written == {p \in DOMAIN fs : p \notin DOMAIN InitFS \/ fs[p] # InitFS[p]}

LocalFiles == {p \in DOMAIN fs : fs[p].kind = "file"}

\* C1: every directory created and every file created or truncated by the
\* run lies inside the target's local root
ThmC1 == \A p \in Written : IsUnder(p, LocalRoot)

\* a finished run over a listing with a traversal href and a stored file
WitC1 ==
    /\ pc = "done" /\ sawTraversal
    /\ \E p \in Written : fs[p].kind = "file" /\ fs[p].size > 0

\* C2: a run during which the walk met the cancelled context returns a
\* cancellation error
CexC2 == (pc = "done" /\ observed) => result # "nil"

\* C3 as stated: a run started with a cancelled context (its target directory
\* created) returns the context's error and writes no file
CexC3 ==
    (pc = "done" /\ startCancelled /\ LocalRoot \in DOMAIN fs) =>
        (result = "ctx" /\ Written \cap LocalFiles = {})

\* C3, amended: a run started with a cancelled context writes no file; it
\* returns the context's error unless max depth is 0 (it returns nil) or the
\* target directory cannot be created (it returns that error)
ThmC3 ==
    startCancelled =>
        /\ Written \cap LocalFiles = {}
        /\ pc = "done" =>
              \/ result = "mkdir"
              \/ target.maxDepth = 0 /\ result = "nil"
              \/ target.maxDepth # 0 /\ result = "ctx"

WitC3 == pc = "done" /\ startCancelled /\ result = "ctx" /\ LocalRoot \in DOMAIN fs

\* C4: with max depth d >= 0 no listing at depth >= d is requested, nothing
\* is created more than d levels below the local root, the directory of every
\* activation exists, and the return at the bound is nil and counts no error
InvC4 ==
    target.maxDepth >= 0 =>
        /\ \A d \in fetched : d < target.maxDepth
        /\ \A p \in Written : IsUnder(p, LocalRoot) => Len(p) - Len(LocalRoot) <= target.maxDepth
        /\ \A i \in 1..Len(stack) :
              /\ stack[i].dir \in DOMAIN fs /\ fs[stack[i].dir].kind = "dir"
              /\ Len(stack[i].dir) - Len(LocalRoot) = stack[i].depth
              /\ stack[i].depth <= target.maxDepth

AtBound ==
    /\ pc = "running" /\ stack # <<>> /\ stack' # stack
    /\ stack[Len(stack)].pc = "enter"
    /\ target.maxDepth >= 0
    /\ stack[Len(stack)].depth >= target.maxDepth

ThmC4 ==
    /\ []InvC4
    /\ [][AtBound => /\ stats' = stats /\ fs' = fs
                     /\ stack' = SubSeq(stack, 1, Len(stack) - 1)
                     /\ pc' = "done" => result' = "nil"]_vars

\* max depth 2 over root -> d -> d: both directories exist, depth 2 was
\* never requested and nothing lies below
WitC4 ==
    /\ pc = "done" /\ target.maxDepth = 2 /\ stats.errors = 0
    /\ LocalRoot \o << <<"d">>, <<"d">> >> \in DOMAIN fs
    /\ fs[LocalRoot \o << <<"d">>, <<"d">> >>].kind = "dir"
    /\ 1 \in fetched

\* what a probe may report
Infos == [size : 0..MaxSize, lastMod : 0..MaxTime]

\* the local paths a download may be asked to compare: the files of the
\* mirror and one that is not there
ProbedPaths == (LocalFiles \cap Written) \cup {LocalRoot \o << <<"n", "o">> >>}

CexC6 ==
    (/\ run = 2 /\ pc = "done" /\ prev.clean /\ target.checkChanges
     /\ ~faults /\ ctx = "live" /\ result = "nil")
    => /\ stats.downloaded = 0
       /\ gets = 0
       /\ stats.skipped = prev.stats.downloaded + prev.stats.skipped

\* C7: every request goes to the host of the target's root URL
CexC7 == hosts \subseteq {target.url.host}

\* C8 as stated: a finished run whose listings carried a traversal href has
\* counted an error
CexC8 == (pc = "done" /\ result = "nil" /\ sawTraversal) => stats.errors > 0

\* C8, amended: a traversal href is never written to disk; link extraction
\* drops it, so it never reaches the link loop, and extracting the links of a
\* page changes neither the counters nor the disk
NoTraversalPending ==
    \A i \in 1..Len(stack) : \A j \in 1..Len(stack[i].links) :
        ~Contains(stack[i].links[j], <<".", ".">>)

Extracted ==
    /\ pc = "running" /\ pc' = "running" /\ Len(stack') = Len(stack)
    /\ stack[Len(stack)].pc = "enter"
    /\ stack'[Len(stack)].pc \in {"loop", "page"}

ThmC8 ==
    /\ [](NoTraversalPending /\ \A p \in Written : IsUnder(p, LocalRoot))
    /\ [][Extracted => stats' = stats /\ fs' = fs]_vars

WitC8 == pc = "done" /\ result = "nil" /\ sawTraversal /\ stats.errors = 0 /\ stats.downloaded > 0

\* the link loop is about to reject the name of its next link
NameRejected ==
    /\ pc = "running" /\ stack # <<>> /\ stack' # stack
    /\ stack[Len(stack)].pc = "loop" /\ stack[Len(stack)].links # <<>>
    /\ LET link == Head(stack[Len(stack)].links)
       IN  /\ ParseURL(link).ok /\ ~IsParentLink(link)
           /\ IF HasSuffix(link, <<"/">>)
              THEN ~isValidFilename(TrimSuffix(link, <<"/">>))
              ELSE ~isValidFilename(Base(link))

\* C9: a rejected name skips only its entry and adds one to the error counter
CexC9 ==
    [][NameRejected => /\ stats'.errors = stats.errors + 1
                       /\ stack' = [stack EXCEPT ![Len(stack)].links = Tail(@)]]_vars

\* C10: while the context is live, whatever fails, a returning call leaves
\* the pending links of its callers as they were, a call returns from its
\* loop only when no link is left, and an iteration takes exactly the first
\* pending link
Walked ==
    /\ Len(stack') < Len(stack) =>
          /\ stack' = SubSeq(stack, 1, Len(stack) - 1)
          /\ stack[Len(stack)].pc = "loop" => stack[Len(stack)].links = <<>>
    /\ (Len(stack') >= Len(stack) /\ stack' # stack /\ stack # <<>>
        /\ stack[Len(stack)].pc = "loop") =>
          /\ stack[Len(stack)].links # <<>>
          /\ SubSeq(stack', 1, Len(stack)) = [stack EXCEPT ![Len(stack)].links = Tail(@)]

ThmC10 == [][ctx' = "live" => Walked]_vars

\* the listing of a subdirectory could not be fetched, an error was counted,
\* and the root's loop still has a link to process
WitC10 ==
    /\ ctx = "live" /\ pc = "running" /\ Len(stack) = 1
    /\ stack[1].pc = "loop" /\ stack[1].links # <<>>
    /\ 1 \in fetched /\ stats.errors = 1 /\ faults
    /\ \A p \in Written : Len(p) <= Len(LocalRoot) + 1

CexC12 == rootFetch = "status" => (pc = "done" /\ result # "nil" /\ stack = <<>>)

(***************************************************************************)
(* the rate-limited reader: rate.NewLimiter(R, R) behind Read              *)
(***************************************************************************)
\* what the walk owns, apart from the context
crawl == <<target, pc, result, stack, fs, stats, remote, run, prev, hosts, fetched, gets,
           observed, sawTraversal, startCancelled, rootFetch, faults, last>>

\* NewClient: a bucket of capacity rate, full when the first read arrives
NewReader(rate, body) ==
    [status |-> "ready", rate |-> rate, tokens |-> rate, clock |-> 0, pending |-> 0,
     delivered |-> 0, remaining |-> body]

Min(a, b) == IF a <= b THEN a ELSE b

\* the bucket gains rate tokens per tick, up to its capacity
Refill(r) == Min(r.rate, r.tokens + r.rate)

WaitNever(r) == TRUE

\* WaitN returns once the reserved tokens have accumulated
WaitOver(r) == r.tokens >= 0

\* Read(p) with len(p) = n: limiter.WaitN(ctx, n) refuses a request above the
\* burst, fails on a cancelled context, and otherwise reserves n tokens
Read(n) ==
    /\ rl.status = "ready"
    /\ rl' = IF n > rl.rate THEN [rl EXCEPT !.status = "burst"]
             ELSE IF ctx = "cancelled" THEN [rl EXCEPT !.status = "cancelled"]
             ELSE [rl EXCEPT !.status = "waiting", !.pending = n, !.tokens = @ - n]
    /\ UNCHANGED <<crawl, ctx, call, up>>

Tick ==
    /\ rl.status \in {"ready", "waiting"}
    /\ rl.clock < MaxClock
    /\ rl' = [rl EXCEPT !.clock = @ + 1, !.tokens = Refill(rl)]
    /\ UNCHANGED <<crawl, ctx, call, up>>

\* the wait ends: by cancellation (the reservation is given back), or with
\* the tokens there, and then the body is read: k bytes, the end, or an error
Deliver ==
    /\ rl.status = "waiting"
    /\ \/ /\ ctx = "cancelled"
          /\ rl' = [rl EXCEPT !.status = "cancelled", !.tokens = Min(rl.rate, @ + rl.pending)]
       \/ /\ ctx = "live" /\ WaitOver(rl)
          /\ \/ /\ rl.remaining = 0
                /\ rl' = [rl EXCEPT !.status = "done"]
             \/ \E k \in 1..Min(rl.pending, rl.remaining) :
                   rl' = [rl EXCEPT !.status = "ready", !.delivered = @ + k,
                                    !.remaining = @ - k]
             \/ rl' = [rl EXCEPT !.status = "readerr"]
    /\ UNCHANGED <<crawl, ctx, call, up>>

InitRate ==
    /\ target \in {t \in Targets : t.maxDepth = -1 /\ t.url.path = <<"/">> /\ t.checkChanges}
    /\ Init!2 /\ Init!3 /\ Init!4 /\ Init!5 /\ Init!6 /\ Init!7 /\ Init!8
    /\ Init!9 /\ Init!10 /\ Init!11 /\ Init!12 /\ Init!13 /\ Init!14 /\ Init!15
    /\ Init!16 /\ Init!17 /\ Init!18 /\ Init!19 /\ Init!22
    /\ rl \in {NewReader(r, b) : r \in 1..MaxRate, b \in 0..MaxBody}
    /\ call = NoCall

NextRate ==
    \/ Cancel
    \/ \E n \in 1..MaxChunk : Read(n)
    \/ Tick
    \/ Deliver

\* one body read through a rate-limited reader
SpecRate == InitRate /\ [][NextRate]_vars

\* C13: no read fails because of the limiter, whatever the chunk size
CexC13 == rl.status # "burst"

\* C14: within t ticks of its first read a reader of rate R has delivered
\* at most R + R*t bytes; at rate 1, 5 bytes take at least 4 ticks
ThmC14 ==
    /\ rl.delivered <= rl.rate + rl.rate * rl.clock
    /\ (rl.rate = 1 /\ rl.delivered >= 5) => rl.clock >= 4

\* the bound is met: 5 bytes at rate 1 after exactly 4 ticks
WitC14 == rl.rate = 1 /\ rl.delivered = 5 /\ rl.clock = 4 /\ rl.status = "ready"

\* the remote serves one listing with a single entry
SingleEntry ==
    /\ target.url \in DOMAIN remote.pages
    /\ remote.pages[target.url].html /\ remote.pages[target.url].status2xx
    /\ Len(remote.pages[target.url].hrefs) = 1

\* C15: after a run that left a truncated file, a faultless second run with
\* change detection downloads the file again: the local copy then has the
\* size of the remote file
CexC15 ==
    (/\ run = 2 /\ pc = "done" /\ result = "nil" /\ ctx = "live"
     /\ target.checkChanges /\ ~faults /\ stats.errors = 0 /\ SingleEntry)
    => \A u \in DOMAIN remote.files : \A p \in LocalFiles \cap Written :
          fs[p].size = remote.files[u].size

\* a probe answered and a transfer that would deliver the whole body
Answered(rf) == [NoInput EXCEPT !.rf = rf, !.bytes = rf.size]

\* C16: with change detection on and NeedsUpdate false for the probed
\* resource, DownloadFile returns nil without a GET and leaves the local
\* file as it is; a download the crawler skips changes nothing on disk
ThmC16 ==
    /\ [](\A p \in ProbedPaths : \A rf \in RemoteFiles :
            LET nu == NeedsUpdate(Stat(fs, p), HeadInfo(rf))
            IN  (~nu.err /\ ~nu.needs) =>
                    DownloadFile(fs, FALSE, TRUE, p, Answered(rf))
                        = [fs |-> fs, err |-> FALSE, get |-> FALSE])
    /\ [][stats'.skipped = stats.skipped + 1 => (fs' = fs /\ gets' = gets)]_vars

\* DownloadFile itself found the file up to date: the crawler's own probe had
\* failed, the download is counted and no GET was sent
WitC16 ==
    /\ target.checkChanges /\ ctx = "live" /\ last.what = "link" /\ ~last.ok
    /\ stats.downloaded = 1 /\ stats.errors = 0 /\ gets = 0
    /\ Stat(fs, last.path).kind = "file"

(***************************************************************************)
(* link extraction on its own                                              *)
(***************************************************************************)
\* the hrefs of the listing of the specification's example, in document order
ExamplePage ==
    << <<"f", "i", "l", "e", "1", ".", "t", "x", "t">>,
       <<"s", "u", "b", "d", "i", "r", "/">>,
       <<".", ".", "/">>,
       <<"?", "o", "r", "d", "e", "r", "=", "n", "a", "m", "e">>,
       <<"m", "a", "i", "l", "t", "o", ":", "a", "@", "b", ".", "c", "o", "m">>,
       <<"j", "a", "v", "a", "s", "c", "r", "i", "p", "t", ":", "v", "o", "i", "d", "(", "0", ")">> >>

\* further hrefs, one or more for each exclusion rule
ParseHrefs ==
    { <<"/">>,
      <<".", "/">>,
      <<"#", "x">>,
      <<" ">>,
      <<"B", "A", "c", "k", "/">>,
      <<"a", "&", "b">>,
      <<"H", "T", "T", "P", ":", "/", "/", "e", "/", "f">>,
      <<"h", "t", "t", "p", ":", "/", "/", "e", "/", "f">>,
      <<"d", "/", ".", ".">>,
      <<"d", "a", "t", "a", ":", "x">>,
      <<"f", "t", "p", ":", "/", "/", "e", "/", "f">>,
      <<"x">> }

ParsePages ==
    {ExamplePage}
    \cup UNION {[1..n -> ParseHrefs \cup {ExamplePage[i] : i \in 1..Len(ExamplePage)}] :
                  n \in 0..MaxLinks}

\* parseDirectoryListing is called on the hrefs of a page
Parse ==
    /\ call.fn = "none"
    /\ call' = [fn |-> "parse", arg |-> call.arg, out |-> parseDirectoryListing(call.arg)]
    /\ UNCHANGED <<crawl, ctx, rl, up>>

InitParse ==
    /\ target \in {t \in Targets : t.maxDepth = -1 /\ t.url.path = <<"/">> /\ t.checkChanges}
    /\ Init!2 /\ Init!3 /\ Init!4 /\ Init!5 /\ Init!6 /\ Init!7 /\ Init!8
    /\ Init!9 /\ Init!10 /\ Init!11 /\ Init!12 /\ Init!13 /\ Init!14 /\ Init!15
    /\ Init!16 /\ Init!17 /\ Init!18 /\ Init!19 /\ Init!20 /\ Init!22
    /\ call \in {[fn |-> "none", arg |-> page, out |-> <<>>] : page \in ParsePages}

NextParse == Parse

\* one call of link extraction on one page
SpecParse == InitParse /\ [][NextParse]_vars

\* the exclusion rules as the specification lists them
ListedSchemes ==
    { <<"h", "t", "t", "p", ":", "/", "/">>,
      <<"h", "t", "t", "p", "s", ":", "/", "/">>,
      <<"f", "t", "p", ":", "/", "/">>,
      <<"m", "a", "i", "l", "t", "o", ":">>,
      <<"j", "a", "v", "a", "s", "c", "r", "i", "p", "t", ":">>,
      <<"d", "a", "t", "a", ":">>,
      <<"v", "b", "s", "c", "r", "i", "p", "t", ":">> }

FoldContains(h, pat) ==
    \E i \in 1..(Len(h) - Len(pat) + 1) :
        \A j \in 1..Len(pat) : LowerChar(h[i + j - 1]) = pat[j]

Excluded(h) ==
    \/ \E p \in ListedSchemes : HasPrefix(h, p)
    \/ (h # <<>> /\ h[1] = "#") \/ h = <<"/">> \/ h = <<".", "/">>
    \/ Contains(h, <<".", ".">>)
    \/ FoldContains(h, <<"p", "a", "r", "e", "n", "t">>) \/ FoldContains(h, <<"b", "a", "c", "k">>)
    \/ \E i \in 1..Len(h) : h[i] \in {"?", "&"}
    \/ \A i \in 1..Len(h) : h[i] = " "

\* s is t with the elements at the positions outside keep removed
IsSelection(s, t, keep) ==
    \E f \in [1..Len(s) -> 1..Len(t)] :
        /\ \A i \in 1..Len(s) : s[i] = t[f[i]]
        /\ \A i, j \in 1..Len(s) : i < j => f[i] < f[j]
        /\ {f[i] : i \in 1..Len(s)} = keep

\* C17: link extraction returns exactly the hrefs that match none of the
\* exclusion rules, in document order; the example page yields file1.txt
\* and subdir/
ThmC17 ==
    call.fn = "parse" =>
        /\ IsSelection(call.out, call.arg, {i \in 1..Len(call.arg) : ~Excluded(call.arg[i])})
        /\ call.arg = ExamplePage => call.out = <<ExamplePage[1], ExamplePage[2]>>

\* the example page has been parsed
WitC17 ==
    /\ call.fn = "parse" /\ call.arg = ExamplePage
    /\ call.out = << <<"f", "i", "l", "e", "1", ".", "t", "x", "t">>, <<"s", "u", "b", "d", "i", "r", "/">> >>

\* candidate names: empty, blank, with "..", with a separator, and plain ones
TestNames ==
    { <<>>,
      <<" ">>,
      <<" ", " ">>,
      <<".", ".">>,
      <<"a", ".", ".", "b">>,
      <<".", ".", "/", "f">>,
      <<"a", "/", "b">>,
      <<"/">>,
      <<"a", "\\", "b">>,
      <<"\\">>,
      <<"f">>,
      <<"d">>,
      <<".">>,
      <<"f", "i", "l", "e", "1", ".", "t", "x", "t">>,
      <<" ", "f">>,
      <<"a", " ", "b">> }

\* the rejection rule as the specification states it
Rejected(n) ==
    \/ \A i \in 1..Len(n) : n[i] = " "
    \/ \E i \in 1..Len(n) : n[i] \in {"/", "\\"}
    \/ \E i \in 1..(Len(n) - 1) : n[i] = "." /\ n[i + 1] = "."

\* the name the link loop validates for its next link
NameOf(link) == IF HasSuffix(link, <<"/">>) THEN TrimSuffix(link, <<"/">>) ELSE Base(link)

\* the link loop takes a link that reaches name validation
Validating ==
    /\ pc = "running" /\ stack # <<>> /\ stack' # stack
    /\ stack[Len(stack)].pc = "loop" /\ stack[Len(stack)].links # <<>>
    /\ ParseURL(Head(stack[Len(stack)].links)).ok
    /\ ~IsParentLink(Head(stack[Len(stack)].links))

\* C18: name validation rejects exactly the names that are empty or blank or
\* contain "..", "/" or "\"; the link loop creates no file and no directory,
\* and sends no request, for an entry whose name is rejected
ThmC18 ==
    /\ [](\A n \in TestNames \cup {NameOf(h) : h \in Hrefs} : isValidFilename(n) = ~Rejected(n))
    /\ [][(Validating /\ Rejected(NameOf(Head(stack[Len(stack)].links)))) =>
            /\ fs' = fs /\ hosts' = hosts
            /\ stack' = [stack EXCEPT ![Len(stack)].links = Tail(@)]]_vars

\* the loop has just rejected the name of an entry, and the mirror holds
\* nothing but the target's directory
WitC18 == pc = "running" /\ last.what = "rejected" /\ Written = {LocalRoot}

\* C19: a URL stored as a single file whose path is empty, is "/" or ends
\* in "/" gets the local name index.html, in both branches
CexC19 ==
    (last.what = "direct" /\ (last.url.path = <<>> \/ HasSuffix(last.url.path, <<"/">>)))
    => (last.path # <<>> /\ last.path[Len(last.path)] = IndexHtml)

\* the path of a URL of the target's host, as segments below the root URL
RelativePath(url) == CleanInto(<<>>, Split(url.path, "/"))

\* C20: a file the crawl stores from a listing entry lies, below the local
\* root, at the path its URL has below the root URL
CexC20 ==
    (last.what = "link" /\ last.ok /\ last.url.host = target.url.host)
    => last.path = LocalRoot \o RelativePath(last.url)

(***************************************************************************)
(* C21: the updater's loop and exit code                                   *)
(***************************************************************************)
TargetsOf(finished) == [i \in 1..Len(finished) |-> finished[i].target]

\* C21 as stated: when the updater has ended, MirrorTarget has been called
\* once for every configured target, in the configuration's order, and the
\* exit code is non-zero exactly when a target returned an error
CexC21 ==
    up.phase = "exited" =>
        /\ TargetsOf(up.finished) = up.config
        /\ (up.exit = "1") <=> (\E i \in 1..Len(up.finished) : up.finished[i].err # "nil")

\* C21: the targets MirrorTarget has returned for are at every moment the
\* first targets of the configuration, in its order, whatever errors they
\* returned; when the updater has ended they are all of them; and the exit
\* code is non-zero exactly when a target returned an error or no target is
\* configured
ThmC21 ==
    /\ up.phase # "none" =>
          /\ Len(up.finished) <= Len(up.config)
          /\ TargetsOf(up.finished) = SubSeq(up.config, 1, Len(up.finished))
    /\ up.phase = "exited" =>
          /\ TargetsOf(up.finished) = up.config
          /\ (up.exit = "1") <=> (\/ up.config = <<>>
                                  \/ \E i \in 1..Len(up.finished) : up.finished[i].err # "nil")
          /\ up.exit \in {"0", "1"}

\* the first target failed, the second was mirrored all the same and
\* returned nil, and the updater exits with failure
WitC21 ==
    /\ up.phase = "exited" /\ Len(up.config) = 2 /\ Len(up.finished) = 2
    /\ up.finished[1].err # "nil" /\ up.finished[2].err = "nil"
    /\ up.exit = "1"

(***************************************************************************)
(* the rate limit of a target: parseRateLimit and the limiter of NewClient *)
(***************************************************************************)
MaxDigits == 2

\* strings.TrimSpace
RECURSIVE TrimSpace(_)
TrimSpace(s) ==
    IF s = <<>> THEN s
    ELSE IF Head(s) = " " THEN TrimSpace(Tail(s))
    ELSE IF s[Len(s)] = " " THEN TrimSpace(SubSeq(s, 1, Len(s) - 1))
    ELSE s

DigitChars == <<"0", "1", "2", "3", "4", "5", "6", "7", "8", "9">>

IsDigit(c) == \E d \in 1..10 : DigitChars[d] = c

DigitValue(c) == (CHOOSE d \in 1..10 : DigitChars[d] = c) - 1

RECURSIVE DigitsValue(_)
DigitsValue(s) ==
    IF s = <<>> THEN 0 ELSE 10 * DigitsValue(SubSeq(s, 1, Len(s) - 1)) + DigitValue(s[Len(s)])

\* strconv.ParseInt(s, 10, 64): an optional sign, then one digit or more
ParseInt(s) ==
    LET signed == s # <<>> /\ Head(s) \in {"+", "-"}
        digits == IF signed THEN Tail(s) ELSE s
    IN  IF digits = <<>> \/ \E i \in 1..Len(digits) : ~IsDigit(digits[i])
        THEN [ok |-> FALSE, num |-> 0]
        ELSE [ok |-> TRUE,
              num |-> IF signed /\ Head(s) = "-" THEN 0 - DigitsValue(digits)
                      ELSE DigitsValue(digits)]

KiB == 1024
MiB == 1024 * 1024
GiB == 1024 * 1024 * 1024

parseRateLimitCaseSensitive(rateStr) ==
    LET str == TrimSpace(rateStr)
        multiplier == IF HasSuffix(str, <<"k">>) THEN KiB
                      ELSE IF HasSuffix(str, <<"m">>) THEN MiB
                      ELSE IF HasSuffix(str, <<"g">>) THEN GiB
                      ELSE 1
        numStr == IF HasSuffix(str, <<"k">>) THEN TrimSuffix(str, <<"k">>)
                  ELSE IF HasSuffix(str, <<"m">>) THEN TrimSuffix(str, <<"m">>)
                  ELSE IF HasSuffix(str, <<"g">>) THEN TrimSuffix(str, <<"g">>)
                  ELSE str
        n == ParseInt(numStr)
    IN  IF n.ok THEN n.num * multiplier ELSE 0

\* parseRateLimit: bytes per second of a string such as "500k"
parseRateLimit(rateStr) ==
    LET str == ToLower(TrimSpace(rateStr))
        multiplier == IF HasSuffix(str, <<"k">>) THEN KiB
                      ELSE IF HasSuffix(str, <<"m">>) THEN MiB
                      ELSE IF HasSuffix(str, <<"g">>) THEN GiB
                      ELSE 1
        numStr == IF HasSuffix(str, <<"k">>) THEN TrimSuffix(str, <<"k">>)
                  ELSE IF HasSuffix(str, <<"m">>) THEN TrimSuffix(str, <<"m">>)
                  ELSE IF HasSuffix(str, <<"g">>) THEN TrimSuffix(str, <<"g">>)
                  ELSE str
        n == ParseInt(numStr)
    IN  IF n.ok THEN n.num * multiplier ELSE 0

\* the limiter NewClient builds: none, or one of that rate and burst
NewLimiter(rateLimit) ==
    IF rateLimit # <<>> /\ parseRateLimit(rateLimit) > 0
    THEN [limited |-> TRUE, limit |-> parseRateLimit(rateLimit), burst |-> parseRateLimit(rateLimit)]
    ELSE [limited |-> FALSE, limit |-> 0, burst |-> 0]

\* the numerals of the rate strings: up to MaxDigits digits, signed or not
Numerals ==
    LET D == UNION {[1..n -> {"0", "1", "5"}] : n \in 0..MaxDigits}
    IN  D \cup {<<"-">> \o d : d \in D}

Suffixes == {<<>>, <<"k">>, <<"K">>, <<"m">>, <<"M">>, <<"x">>, <<"k", "b">>, <<" ">>}

\* rate strings: a numeral and a suffix, a leading blank, gigabyte rates of
\* one digit, and the strings of TestParseRateLimit short enough
RateStrings ==
    {n \o x : n \in Numerals, x \in Suffixes}
    \cup {<<" ">> \o n \o x : n \in Numerals, x \in {<<"k">>, <<"M">>}}
    \cup {d \o x : d \in {<<>>, <<"0">>, <<"1">>, <<"-", "1">>, <<"x">>}, x \in {<<"g">>, <<"G">>}}
    \cup {<<"i", "n", "v", "a", "l", "i", "d">>, <<"1", "0", "0">>, <<"1", "0", "0", "k">>,
          <<"1", "0", "0", "x">>}

\* NewClient is given a target with this rate limit
ParseRate ==
    /\ call.fn = "none"
    /\ call' = [fn |-> "rate", arg |-> call.arg,
                out |-> [rate |-> parseRateLimit(call.arg), limiter |-> NewLimiter(call.arg)]]
    /\ UNCHANGED <<crawl, ctx, rl, up>>

InitRateString ==
    /\ target \in {t \in Targets : t.maxDepth = -1 /\ t.url.path = <<"/">> /\ t.checkChanges}
    /\ Init!2 /\ Init!3 /\ Init!4 /\ Init!5 /\ Init!6 /\ Init!7 /\ Init!8
    /\ Init!9 /\ Init!10 /\ Init!11 /\ Init!12 /\ Init!13 /\ Init!14 /\ Init!15
    /\ Init!16 /\ Init!17 /\ Init!18 /\ Init!19 /\ Init!20 /\ Init!22
    /\ call \in {[fn |-> "none", arg |-> s, out |-> <<>>] : s \in RateStrings}

NextRateString == ParseRate

\* one client built for one rate limit
SpecRateString == InitRateString /\ [][NextRateString]_vars

\* s is a decimal number: digits after an optional sign
IsDecimal(s) ==
    LET digits == IF s # <<>> /\ Head(s) \in {"+", "-"} THEN Tail(s) ELSE s
    IN  digits # <<>> /\ \A i \in 1..Len(digits) : IsDigit(digits[i])

Decimal(s) ==
    IF Head(s) = "-" THEN 0 - DigitsValue(Tail(s))
    ELSE IF Head(s) = "+" THEN DigitsValue(Tail(s))
    ELSE DigitsValue(s)

\* what the rate string stands for: a number, a number of KiB, MiB or GiB,
\* or nothing
RateOf(s) ==
    LET body == SubSeq(s, 1, Len(s) - 1)
        unit == IF s = <<>> THEN "" ELSE s[Len(s)]
    IN  IF IsDecimal(s) THEN Decimal(s)
        ELSE IF unit \in {"k", "K"} /\ IsDecimal(body) THEN Decimal(body) * 1024
        ELSE IF unit \in {"m", "M"} /\ IsDecimal(body) THEN Decimal(body) * 1024 * 1024
        ELSE IF unit \in {"g", "G"} /\ IsDecimal(body) THEN Decimal(body) * 1024 * 1024 * 1024
        ELSE 0

\* C22: parseRateLimit returns n for a decimal number n, n times 1024,
\* 1024^2 or 1024^3 for n followed by k, m or g in either case, and 0 for
\* the empty string, a string without digits and an unrecognized suffix
\* (blanks around the string do not count); and a client whose parsed rate
\* is 0 has no limiter, while a positive rate gives a limiter of that rate
ThmC22 ==
    call.fn = "rate" =>
        /\ call.out.rate = RateOf(TrimSpace(call.arg))
        /\ (call.arg = <<>> \/ \A i \in 1..Len(call.arg) : ~IsDigit(call.arg[i])) => call.out.rate = 0
        /\ call.out.rate = 0 => ~call.out.limiter.limited
        /\ call.out.rate > 0 => (call.out.limiter.limited /\ call.out.limiter.limit = call.out.rate)

\* "10K" is 10240 bytes per second, with a limiter
WitC22 ==
    /\ call.fn = "rate" /\ call.arg = <<"1", "0", "K">>
    /\ call.out.rate = 10240 /\ call.out.limiter.limited

(***************************************************************************)
(* the file handler of the server                                          *)
(***************************************************************************)
MaxSegments == 3

\* the disk the handler serves from: its root DataPath with a file and a
\* directory, a sibling directory whose name begins with the root's name,
\* and a file and a directory of other names
SiblingDir == << <<"v", "2">> >>

ServeFS ==
    (<<>> :> DirEntry) @@ (DataPath :> DirEntry)
    @@ (Append(DataPath, <<"f">>) :> FileEntry(1, 1))
    @@ (Append(DataPath, <<"s">>) :> DirEntry)
    @@ (Append(Append(DataPath, <<"s">>), IndexHtml) :> FileEntry(1, 1))
    @@ (SiblingDir :> DirEntry)
    @@ (Append(SiblingDir, <<"f">>) :> FileEntry(1, 1))
    @@ (<< <<"o">> >> :> FileEntry(1, 1))

\* r.URL.Path of the requests: up to MaxSegments segments after the slash
RequestSegments == {<<".", ".">>, <<"f">>, <<"s">>, <<"v">>, <<"v", "2">>, <<"o">>}

RECURSIVE SlashJoin(_)
SlashJoin(segs) ==
    IF segs = <<>> THEN <<>>
    ELSE IF Len(segs) = 1 THEN Head(segs)
    ELSE Head(segs) \o <<"/">> \o SlashJoin(Tail(segs))

RequestPaths ==
    {<<"/">> \o SlashJoin(segs) : segs \in UNION {[1..n -> RequestSegments] : n \in 0..MaxSegments}}

\* strings.TrimPrefix
TrimPrefix(s, p) == IF HasPrefix(s, p) THEN SubSeq(s, Len(p) + 1, Len(s)) ELSE s

\* Handler.ServeHTTP: the status of the answer and the path whose content
\* (a file, or the listing of a directory) it carries
ServeHTTP(f, rootPath, path) ==
    LET trimmed == TrimPrefix(path, <<"/">>)
        urlPath == IF trimmed = <<>> THEN <<".">> ELSE trimmed
        cleanPath == Join(rootPath, urlPath)
        st == Stat(f, cleanPath)
        indexPath == Join(cleanPath, IndexHtml)
    IN  IF ~HasPrefix(PathString(cleanPath), PathString(rootPath))
        THEN [status |-> 403, resolved |-> cleanPath, served |-> <<>>, content |-> "none"]
        ELSE IF st.kind = "absent"
        THEN [status |-> 404, resolved |-> cleanPath, served |-> <<>>, content |-> "none"]
        ELSE IF st.kind = "error"
        THEN [status |-> 500, resolved |-> cleanPath, served |-> <<>>, content |-> "none"]
        ELSE IF st.kind = "file"
        THEN [status |-> 200, resolved |-> cleanPath, served |-> cleanPath, content |-> "file"]
        ELSE IF HasPrefix(PathString(indexPath), PathString(rootPath))
                /\ Stat(f, indexPath).kind \in {"file", "dir"}
        THEN [status |-> 200, resolved |-> cleanPath, served |-> indexPath, content |-> "file"]
        ELSE [status |-> 200, resolved |-> cleanPath, served |-> cleanPath, content |-> "listing"]

\* the handler answers one request
Serve ==
    /\ call.fn = "none"
    /\ call' = [fn |-> "serve", arg |-> call.arg, out |-> ServeHTTP(ServeFS, DataPath, call.arg)]
    /\ UNCHANGED <<crawl, ctx, rl, up>>

InitServe ==
    /\ target \in {t \in Targets : t.maxDepth = -1 /\ t.url.path = <<"/">> /\ t.checkChanges}
    /\ Init!2 /\ Init!3 /\ Init!4 /\ Init!5 /\ Init!6 /\ Init!7 /\ Init!8
    /\ Init!9 /\ Init!10 /\ Init!11 /\ Init!12 /\ Init!13 /\ Init!14 /\ Init!15
    /\ Init!16 /\ Init!17 /\ Init!18 /\ Init!19 /\ Init!20 /\ Init!22
    /\ call \in {[fn |-> "none", arg |-> p, out |-> <<>>] : p \in RequestPaths}

NextServe == Serve

\* one request to the file handler
SpecServe == InitServe /\ [][NextServe]_vars

\* C23: the handler answers every request whose resolved path lies outside
\* its root with 403, a sibling directory whose name begins with the root's
\* name included, and never serves content from outside the root
CexC23 ==
    call.fn = "serve" =>
        /\ ~IsUnder(call.out.resolved, DataPath) => call.out.status = 403
        /\ call.out.content # "none" => IsUnder(call.out.served, DataPath)

(***************************************************************************)
(* the configuration of a target: what the file sets, and the defaults     *)
(***************************************************************************)
\* a field of a target in the configuration file: left out, or written
\* with a value
Unset(zero) == [set |-> FALSE, val |-> zero]
Explicit(v) == [set |-> TRUE, val |-> v]

TargetFields ==
    {"userAgent", "rateLimit", "retries", "maxDepth", "timeout", "waitBetweenRequests",
     "timestamping", "noClobber", "continueDownload", "checkChanges"}

BoolField == {Unset(FALSE), Explicit(FALSE), Explicit(TRUE)}

\* the targets a configuration file may describe
RawTargets ==
    [userAgent : {Unset(<<>>), Explicit(<<"a">>)},
     rateLimit : {Unset(<<>>), Explicit(<<"1", "k">>)},
     retries : {Unset(0), Explicit(0), Explicit(2)},
     maxDepth : {Unset(0), Explicit(0), Explicit(1)},
     timeout : {Unset(0), Explicit(7)},
     waitBetweenRequests : {Unset(0), Explicit(0)},
     timestamping : BoolField, noClobber : BoolField, continueDownload : BoolField,
     checkChanges : BoolField]

\* json.Unmarshal into a Target: a field left out has the zero value
Decode(raw) == [f \in TargetFields |-> raw[f].val]

\* GetDefaults (the user agent shortened)
GetDefaults ==
    [userAgent |-> <<"m">>, rateLimit |-> <<"5", "0", "0", "k">>, retries |-> 3, maxDepth |-> 5,
     timeout |-> 30, waitBetweenRequests |-> 1, timestamping |-> TRUE, noClobber |-> TRUE,
     continueDownload |-> TRUE, checkChanges |-> TRUE]

\* the defaults of the file of TestLoadConfigFromFile
FileDefaults ==
    [userAgent |-> <<"t">>, rateLimit |-> <<"1", "0", "0", "k">>, retries |-> 5, maxDepth |-> 10,
     timeout |-> 60, waitBetweenRequests |-> 0, timestamping |-> FALSE, noClobber |-> FALSE,
     continueDownload |-> FALSE, checkChanges |-> FALSE]

\* applyDefaults: a field with the zero value takes the default
applyDefaults(t, defaults) ==
    [f \in TargetFields |->
        IF f \in {"userAgent", "rateLimit"} THEN (IF t[f] = <<>> THEN defaults[f] ELSE t[f])
        ELSE IF f \in {"retries", "maxDepth", "timeout", "waitBetweenRequests"}
        THEN (IF t[f] = 0 THEN defaults[f] ELSE t[f])
        ELSE (IF ~t[f] THEN defaults[f] ELSE t[f])]

\* LoadConfig applies the defaults to a target of the file
ApplyDefaults ==
    /\ call.fn = "none"
    /\ call' = [fn |-> "defaults", arg |-> call.arg,
                out |-> <<applyDefaults(Decode(call.arg.target), call.arg.defaults)>>]
    /\ UNCHANGED <<crawl, ctx, rl, up>>

\* the defaults are applied to the same target once more
ApplyAgain ==
    /\ call.fn = "defaults" /\ Len(call.out) = 1
    /\ call' = [call EXCEPT !.out = Append(@, applyDefaults(call.out[1], call.arg.defaults))]
    /\ UNCHANGED <<crawl, ctx, rl, up>>

InitDefaults ==
    /\ target \in {t \in Targets : t.maxDepth = -1 /\ t.url.path = <<"/">> /\ t.checkChanges}
    /\ Init!2 /\ Init!3 /\ Init!4 /\ Init!5 /\ Init!6 /\ Init!7 /\ Init!8
    /\ Init!9 /\ Init!10 /\ Init!11 /\ Init!12 /\ Init!13 /\ Init!14 /\ Init!15
    /\ Init!16 /\ Init!17 /\ Init!18 /\ Init!19 /\ Init!20 /\ Init!22
    /\ call \in {[fn |-> "none", arg |-> [target |-> r, defaults |-> d], out |-> <<>>] :
                   r \in RawTargets, d \in {GetDefaults, FileDefaults}}

NextDefaults == ApplyDefaults \/ ApplyAgain

\* the defaults applied to one target of a configuration file
SpecDefaults == InitDefaults /\ [][NextDefaults]_vars

\* C24: applyDefaults keeps every value the target sets explicitly (false
\* for checkChanges, timestamping, noClobber or continueDownload and 0 for
\* maxDepth included) and fills only the fields the target leaves unset, and
\* applying the defaults twice gives what applying them once gives
CexC24 ==
    call.fn = "defaults" =>
        /\ \A f \in TargetFields :
              call.out[1][f] = IF call.arg.target[f].set THEN call.arg.target[f].val
                               ELSE call.arg.defaults[f]
        /\ Len(call.out) = 2 => call.out[2] = call.out[1]

(***************************************************************************)
(* C25: the order of the walk                                              *)
(***************************************************************************)
\* every call below the innermost is in its link loop, waiting for the call
\* it made for a directory link of its listing: one level deeper, in a
\* directory under its own
Nested ==
    \A i \in 1..(Len(stack) - 1) :
        /\ stack[i].pc = "loop"
        /\ stack[i + 1].depth = stack[i].depth + 1
        /\ IsUnder(stack[i + 1].dir, stack[i].dir) /\ stack[i + 1].dir # stack[i].dir

\* a step of the walk belongs to the innermost call alone: the calls below
\* it keep their pending links; in its loop it takes the first pending link,
\* and for a directory link it calls mirrorURL before any later link
DepthFirst ==
    (stack # <<>> /\ stack' # stack) =>
        LET n == Len(stack)
            top == stack[n]
        IN  /\ Len(stack') \in {n - 1, n, n + 1}
            /\ SubSeq(stack', 1, n - 1) = SubSeq(stack, 1, n - 1)
            /\ (top.pc = "loop" /\ Len(stack') >= n) =>
                  /\ top.links # <<>>
                  /\ stack'[n] = [top EXCEPT !.links = Tail(@)]
            /\ Len(stack') = n + 1 =>
                  /\ top.pc = "loop" /\ HasSuffix(Head(top.links), <<"/">>)
                  /\ stack'[n + 1].pc = "enter"
                  /\ stack'[n + 1].depth = top.depth + 1
            /\ (top.pc = "loop" /\ Len(stack') = n - 1) => top.links = <<>>

\* C25: the walk is depth-first in document order: the links of a listing
\* are taken first to last, and the whole subtree of a directory link is
\* processed, by calls nested in the loop that met the link, before the next
\* link of that listing is taken
ThmC25 == []Nested /\ [][DepthFirst]_vars

\* the listing of the root is d/ then f: the file of the subdirectory is on
\* disk while the root's own file is still pending
WitC25 ==
    /\ Len(stack) = 2 /\ stack[2].pc = "loop"
    /\ stack[1].links = << <<"f">> >>
    /\ (LocalRoot \o << <<"d">>, <<"f">> >>) \in LocalFiles
    /\ (LocalRoot \o << <<"f">> >>) \notin DOMAIN fs

(***************************************************************************)
(* C26: pacing                                                             *)
(***************************************************************************)
\* C26: the request for a URL below the root, when a wait is configured,
\* is made out of the pacing sleep of its call, which the call entered in a
\* step of its own after finding the context live and which lasts the
\* configured wait; every other request, the root's in particular, is made
\* straight from the entry of its call, without a sleep
Paced ==
    LET top  == stack[Len(stack)]
        wait == target.waitBetweenRequests
    IN  /\ (last'.what = "request" /\ stack' # stack) =>
              /\ stack # <<>>
              /\ IF top.depth > 0 /\ wait > 0
                 THEN top.pc = "sleep" /\ last'.slept = wait
                 ELSE top.pc = "enter" /\ last'.slept = 0
        /\ (stack' # <<>> /\ stack'[Len(stack')].pc = "sleep" /\ stack' # stack) =>
              /\ stack # <<>> /\ top.pc = "enter" /\ top.depth > 0 /\ wait > 0
              /\ ctx = "live" /\ last'.what # "request"
              /\ stack' = [stack EXCEPT ![Len(stack)].pc = "sleep"]

ThmC26 == [][Paced]_vars

\* the context was cancelled during the sleep of a call below the root, and
\* the request was made all the same, after the whole wait
WitC26 ==
    /\ last.what = "request" /\ last.slept = 1 /\ target.waitBetweenRequests = 1
    /\ ctx = "cancelled" /\ observed /\ stats.errors = 1 /\ 1 \in fetched
    /\ Len(stack) = 1

(***************************************************************************)
(* C27, C28, C29: what a download counts and what it leaves on disk        *)
(***************************************************************************)
\* this step is an invocation of downloadFile
Downloading == last'.what \in {"link", "direct"} /\ stack' # stack

\* the files of a filesystem, with their sizes and times
FilesOf(f) == [p \in {q \in DOMAIN f : f[q].kind = "file"} |-> f[p]]

\* C27: an invocation of downloadFile adds one to exactly one of
\* FilesDownloaded, FilesSkipped and Errors, and to FilesDownloaded only if
\* the file was transferred with a GET; no counter decreases during a run
CexC27 ==
    [][(Downloading =>
            /\ \/ stats' = [stats EXCEPT !.downloaded = @ + 1]
               \/ stats' = [stats EXCEPT !.skipped = @ + 1]
               \/ stats' = [stats EXCEPT !.errors = @ + 1]
            /\ stats'.downloaded # stats.downloaded => gets' = gets + 1)
       /\ (pc = "running" =>
            /\ stats'.downloaded >= stats.downloaded
            /\ stats'.skipped >= stats.skipped
            /\ stats'.errors >= stats.errors)]_vars

\* C28: a download whose GET fails under a live context leaves every local
\* file as it was and creates none
CexC28 ==
    [][(Downloading /\ ctx' = "live" /\ last'.get = "failed") => FilesOf(fs') = FilesOf(fs)]_vars

\* C29: once the context is cancelled, the walk creates, truncates and
\* modifies no local file
CexC29 ==
    [][(ctx = "cancelled" /\ pc = "running") => FilesOf(fs') = FilesOf(fs)]_vars

(***************************************************************************)
(* C30: termination                                                        *)
(***************************************************************************)
\* the steps a call of mirrorURL at depth d can take at most, with its
\* nested calls, when no listing has more than MaxLinks links: the entry,
\* the request, and for every link an iteration and the call it makes
RECURSIVE Cost(_, _)
Cost(d, maxDepth) ==
    IF d >= maxDepth THEN 1 ELSE 2 + MaxLinks * (1 + Cost(d + 1, maxDepth)) + 1

\* the steps an activation has left
FrameWork(fr, maxDepth) ==
    CASE fr.pc = "enter" -> Cost(fr.depth, maxDepth)
      [] fr.pc = "sleep" -> Cost(fr.depth, maxDepth) - 1
      [] fr.pc = "loop" -> Len(fr.links) * (1 + Cost(fr.depth + 1, maxDepth)) + 1
      [] OTHER -> 1

RECURSIVE Work(_, _)
Work(frames, maxDepth) ==
    IF frames = <<>> THEN 0
    ELSE FrameWork(Head(frames), maxDepth) + Work(Tail(frames), maxDepth)

\* with a depth limit no call is deeper than the limit, and the work left
\* is within the bound that the limit and the size of the listings give
Bounded ==
    target.maxDepth >= 0 =>
        /\ \A i \in 1..Len(stack) : stack[i].depth <= target.maxDepth /\ stack[i].depth = i - 1
        /\ Work(stack, target.maxDepth) <= Cost(0, target.maxDepth)
        /\ \A d \in fetched : d < target.maxDepth

\* every step of the walk uses up some of the work left
Progress ==
    (target.maxDepth >= 0 /\ pc = "running" /\ stack' # stack) =>
        Work(stack', target.maxDepth) < Work(stack, target.maxDepth)

\* C30: with a non-negative depth limit, against a remote that lists
\* subdirectories at every depth the walk comes to, no call of mirrorURL is
\* deeper than the limit, the steps of the walk (its requests among them)
\* are bounded by the sizes of the listings and the limit, and MirrorTarget
\* returns
ThmC30 ==
    /\ []Bounded
    /\ [][Progress]_vars
    /\ (pc = "running" /\ target.maxDepth >= 0) ~> (pc = "done")

\* a walk limited to depth MaxNest that went as deep as the limit allows,
\* found a subdirectory there too, and returned
WitC30 ==
    /\ pc = "done" /\ result = "nil" /\ ctx = "live"
    /\ target.maxDepth = MaxNest /\ fetched = 0..(MaxNest - 1)
    /\ \E p \in DOMAIN fs : fs[p].kind = "dir" /\ Len(p) = Len(LocalRoot) + MaxNest

====
